---------------------------- MODULE Spec2Model ----------------------------
(***************************************************************************)
(* Model of the file-upload server src/src/JS/A6_Fileupload/server.js:     *)
(* the in-memory rate limiter, the multer upload gate, the filename        *)
(* sanitizer, the storage writer and the retrieval endpoint.               *)
(*                                                                         *)
(* Strings are sequences of one-character strings, so that the regular     *)
(* expressions and the path functions of the source are computed character *)
(* by character.  Paths follow the POSIX flavour of node's path module.    *)
(*                                                                         *)
(* Assumptions: Date.now() never goes back; the server processes one       *)
(* upload at a time (the event loop runs each handler to its next          *)
(* suspension point, and the steps of multer are those points); the random *)
(* suffix of crypto.randomBytes(8) never repeats a suffix found in a       *)
(* stored name.                                                            *)
(***************************************************************************)
EXTENDS Integers, Sequences, FiniteSets, TLC

VARIABLES
  now,             \* Date.now(), in milliseconds
  uploadAttempts,  \* the Map ip -> array of timestamps (server.js:37)
  admitted,        \* history: per client, the admission times still inside the window
  disk,            \* the regular files of uploadDir: set of [filename, size]
  req,             \* the POST /upload being processed (multer, timer, response)
  resp,            \* the response last sent; none while a new upload is unanswered
  nposts,          \* number of POST /upload requests received so far
  san              \* the last call of sanitizeFileName checked on its own

vars == <<now, uploadAttempts, admitted, disk, req, resp, nposts, san>>

(***************************************************************************)
(* Characters and strings                                                  *)
(***************************************************************************)
LowerLetters ==
  {"a","b","c","d","e","f","g","h","i","j","k","l","m",
   "n","o","p","q","r","s","t","u","v","w","x","y","z"}

UpperLetters ==
  {"A","B","C","D","E","F","G","H","I","J","K","L","M",
   "N","O","P","Q","R","S","T","U","V","W","X","Y","Z"}

Digits == {"0","1","2","3","4","5","6","7","8","9"}

\* The character class [a-zA-Z0-9._-] of server.js:51.
SafeChars == LowerLetters \cup UpperLetters \cup Digits \cup {".", "_", "-"}

\* White space removed by String.prototype.trim.
WhiteSpace == {" ", "\t", "\n", "\r"}

UpperSeq ==
  <<"A","B","C","D","E","F","G","H","I","J","K","L","M",
    "N","O","P","Q","R","S","T","U","V","W","X","Y","Z">>

LowerSeq ==
  <<"a","b","c","d","e","f","g","h","i","j","k","l","m",
    "n","o","p","q","r","s","t","u","v","w","x","y","z">>

\* String.prototype.toLowerCase on one character.
LowerChar(c) ==
  IF c \in UpperLetters
    THEN LowerSeq[CHOOSE i \in 1..26 : UpperSeq[i] = c]
    ELSE c

toLowerCase(s) == [i \in 1..Len(s) |-> LowerChar(s[i])]

\* s.startsWith(p)
startsWith(s, p) == Len(p) <= Len(s) /\ SubSeq(s, 1, Len(p)) = p

\* s.endsWith(p)
endsWith(s, p) == Len(p) <= Len(s) /\ SubSeq(s, Len(s) - Len(p) + 1, Len(s)) = p

\* s.includes(p)
includes(s, p) ==
  \E i \in 1..(Len(s) - Len(p) + 1) : SubSeq(s, i, i + Len(p) - 1) = p

\* Index of the last occurrence of character c in s, 0 when there is none.
LastIndexOf(s, c) ==
  IF \E i \in 1..Len(s) : s[i] = c
    THEN CHOOSE i \in 1..Len(s) : s[i] = c /\ \A j \in (i+1)..Len(s) : s[j] # c
    ELSE 0

(***************************************************************************)
(* node's path module (POSIX)                                              *)
(***************************************************************************)
RECURSIVE StripTrailingSlashes(_)
StripTrailingSlashes(p) ==
  IF Len(p) > 0 /\ p[Len(p)] = "/"
    THEN StripTrailingSlashes(SubSeq(p, 1, Len(p) - 1))
    ELSE p

\* The last segment of p, trailing separators ignored.
LastSegment(p) ==
  LET q == StripTrailingSlashes(p)
  IN  SubSeq(q, LastIndexOf(q, "/") + 1, Len(q))

\* path.extname(p): from the last "." of the last segment to its end; empty
\* when there is no ".", when the only "." opens the segment, or for "..".
extname(p) ==
  LET b == LastSegment(p)
      d == LastIndexOf(b, ".")
  IN  IF d <= 1 \/ b = <<".", ".">> THEN <<>> ELSE SubSeq(b, d, Len(b))

\* path.basename(p, ext)
basename(p, ext) ==
  LET b == LastSegment(p)
  IN  IF Len(ext) > 0 /\ ext = p THEN <<>>
      ELSE IF Len(ext) > 0 /\ Len(ext) < Len(b) /\ endsWith(b, ext)
        THEN SubSeq(b, 1, Len(b) - Len(ext))
        ELSE b

\* The segments of a path between its "/" separators.
RECURSIVE Split(_)
Split(p) ==
  IF \A i \in 1..Len(p) : p[i] # "/"
    THEN <<p>>
    ELSE LET k == CHOOSE i \in 1..Len(p) :
                    p[i] = "/" /\ \A j \in 1..(i-1) : p[j] # "/"
         IN  <<SubSeq(p, 1, k - 1)>> \o Split(SubSeq(p, k + 1, Len(p)))

\* Resolution of ".", ".." and empty segments of an absolute path.
RECURSIVE NormalizeSegs(_, _)
NormalizeSegs(segs, acc) ==
  IF segs = <<>> THEN acc
  ELSE LET s == Head(segs)
       IN  IF s = <<>> \/ s = <<".">> THEN NormalizeSegs(Tail(segs), acc)
           ELSE IF s = <<".", ".">>
             THEN NormalizeSegs(Tail(segs),
                    IF acc = <<>> THEN acc ELSE SubSeq(acc, 1, Len(acc) - 1))
             ELSE NormalizeSegs(Tail(segs), Append(acc, s))

RECURSIVE JoinSegs(_)
JoinSegs(segs) ==
  IF segs = <<>> THEN <<>> ELSE <<"/">> \o Head(segs) \o JoinSegs(Tail(segs))

\* path.resolve(p) of an absolute path: normalized, no trailing separator.
resolve(p) ==
  LET segs == NormalizeSegs(Split(p), <<>>)
  IN  IF segs = <<>> THEN <<"/">> ELSE JoinSegs(segs)

\* path.join(dir, name) of an absolute dir: normalized, a trailing separator
\* of the argument is kept.
join(dir, name) ==
  LET p == dir \o <<"/">> \o name
      r == resolve(p)
  IN  IF Len(name) > 0 /\ name[Len(name)] = "/" /\ r # <<"/">>
        THEN r \o <<"/">> ELSE r


(***************************************************************************)
(* Security configuration (server.js:20-39) and helpers (server.js:45-105) *)
(***************************************************************************)
ALLOWED_MIME_TYPES ==
  {"image/jpeg", "image/jpg", "image/png", "image/gif", "application/pdf", "text/plain"}

ALLOWED_EXTENSIONS ==
  { <<".","j","p","g">>, <<".","j","p","e","g">>, <<".","p","n","g">>,
    <<".","g","i","f">>, <<".","p","d","f">>, <<".","t","x","t">> }

MAX_FILE_SIZE == 5 * 1024 * 1024

MAX_UPLOADS_PER_MINUTE == 10

RATE_LIMIT_WINDOW == 60 * 1000

UPLOAD_TIMEOUT == 30000

\* Number of random bytes of the disambiguator; printed as two hex digits each.
HASH_BYTES == 8

\* .replace(/[^a-zA-Z0-9._-]/g, '_')
ReplaceUnsafe(s) == [i \in 1..Len(s) |-> IF s[i] \in SafeChars THEN s[i] ELSE "_"]

\* Mutant: the traversal sequences are not removed.
KeepDotDot(s) == s

\* .replace(/\.\./g, ''): the matches are taken from the left, without overlap.
RECURSIVE RemoveDotDot(_)
RemoveDotDot(s) ==
  IF Len(s) = 0 THEN s
  ELSE IF Len(s) >= 2 /\ s[1] = "." /\ s[2] = "."
    THEN RemoveDotDot(SubSeq(s, 3, Len(s)))
    ELSE <<s[1]>> \o RemoveDotDot(Tail(s))

\* .replace(/^\.+/, '')
RECURSIVE StripLeadingDots(_)
StripLeadingDots(s) ==
  IF Len(s) > 0 /\ s[1] = "." THEN StripLeadingDots(Tail(s)) ELSE s

\* .trim()
RECURSIVE trim(_)
trim(s) ==
  IF Len(s) > 0 /\ s[1] \in WhiteSpace THEN trim(Tail(s))
  ELSE IF Len(s) > 0 /\ s[Len(s)] \in WhiteSpace THEN trim(SubSeq(s, 1, Len(s) - 1))
  ELSE s

\* The chain of replacements of server.js:50-54.
Sanitized(fileName) == trim(StripLeadingDots(RemoveDotDot(ReplaceUnsafe(fileName))))

\* Mutant: the name is used as it was given.
UnsanitizedFileName(fileName, hash) == fileName

\* sanitizeFileName(fileName), hash being the value of
\* crypto.randomBytes(8).toString('hex') drawn by the call.
sanitizeFileName(fileName, hash) ==
  LET sanitized      == Sanitized(fileName)
      ext            == extname(sanitized)
      nameWithoutExt == basename(sanitized, ext)
  IN  nameWithoutExt \o <<"_">> \o hash \o ext

isAllowedMimeType(mimetype) == mimetype \in ALLOWED_MIME_TYPES

isAllowedExtension(filename) == toLowerCase(extname(filename)) \in ALLOWED_EXTENSIONS

\* The filter of server.js:87.
RecentAttempts(userAttempts, t) ==
  SelectSeq(userAttempts, LAMBDA timestamp : t - timestamp < RATE_LIMIT_WINDOW)

\* Mutant: the threshold compared with > instead of >=.
RateLimitOkOffByOne(attempts, ip, t) ==
  ~ (Len(RecentAttempts(attempts[ip], t)) > MAX_UPLOADS_PER_MINUTE)

\* The result of checkRateLimit(ip) at time t.
RateLimitOk(attempts, ip, t) ==
  ~ (Len(RecentAttempts(attempts[ip], t)) >= MAX_UPLOADS_PER_MINUTE)

\* Mutant: the new attempt is pushed on the unfiltered array.
RateLimitStoreUnfiltered(attempts, ip, t) ==
  IF RateLimitOk(attempts, ip, t)
    THEN [attempts EXCEPT ![ip] = Append(attempts[ip], t)]
    ELSE attempts

\* Mutant: the attempt is recorded before the threshold is tested.
RateLimitStoreAlways(attempts, ip, t) ==
  [attempts EXCEPT ![ip] = Append(RecentAttempts(attempts[ip], t), t)]

\* The Map after checkRateLimit(ip) at time t.
RateLimitStore(attempts, ip, t) ==
  IF RateLimitOk(attempts, ip, t)
    THEN [attempts EXCEPT ![ip] = Append(RecentAttempts(attempts[ip], t), t)]
    ELSE attempts

checkFileSize(size) == size <= MAX_FILE_SIZE


(***************************************************************************)
(* Bounds and inputs                                                       *)
(***************************************************************************)
MaxTicks == 2        \* the clock advances at most this many times

MaxPosts == 12       \* POST /upload requests of a rate-limiter run

MaxUploads == 2      \* POST /upload requests of an upload run

MaxFiles == 1        \* complete files the upload directory may hold

MaxNameLen == 5      \* length of the generated input names of the sanitizer

\* One advance of the clock: half the window, which is also the timeout delay.
TickMs == RATE_LIMIT_WINDOW \div 2

Clients == {"10.0.0.1", "10.0.0.2"}

\* A value of crypto.randomBytes(8).toString('hex'): 2 * HASH_BYTES digits.
Hash(d1, d2) == [i \in 1..(2 * HASH_BYTES) |-> IF i % 2 = 1 THEN d1 ELSE d2]

HashDigits == <<"0", "1", "2", "3", "4", "5", "6", "7", "8", "9">>

\* More values than the directory can hold files (the complete ones and the
\* one being written), so that a value never drawn before always exists.
Hashes == {Hash("a", HashDigits[i]) : i \in 1..(MaxFiles + 2)}

NoFile == [present |-> FALSE, originalname |-> <<>>, mimetype |-> "", size |-> 0]

File(name, mime, size) ==
  [present |-> TRUE, originalname |-> name, mimetype |-> mime, size |-> size]

NameTxt == <<"a", ".", "t", "x", "t">>
NameExe == <<"a", ".", "e", "x", "e">>
NamePng == <<".", ".", "/", "b", " ", "c", ".", "P", "N", "G">>

\* The uploads of the model: accepted ones (small, exactly at the ceiling, an
\* upper-case extension under a traversal prefix) and ones failing one or
\* several checks of the gate.
Files ==
  { File(NameTxt, "text/plain", 1024),
    File(NameTxt, "text/plain", MAX_FILE_SIZE),
    File(NamePng, "image/png", 1024),
    File(NameTxt, "text/plain", MAX_FILE_SIZE + 1),
    File(NameExe, "application/x-msdownload", MAX_FILE_SIZE + 1),
    File(NameExe, "text/plain", 1024),
    File(NamePng, "text/html", MAX_FILE_SIZE + 1),
    File(NameTxt, "text/html", 1024) }

\* The uploads of a run of one client against the limiter: one without a
\* file, one per rejection of the gate, an accepted one.
LimitFiles ==
  { NoFile,
    File(NameExe, "text/plain", 1024),
    File(NameTxt, "text/html", 1024),
    File(NameTxt, "text/plain", MAX_FILE_SIZE + 1),
    File(NameTxt, "text/plain", 1024) }

\* path.join(__dirname, 'uploads'), for a server installed in /app.
uploadDir == <<"/", "a", "p", "p", "/", "u", "p", "l", "o", "a", "d", "s">>

\* Files of the host outside the upload directory.
OutsideFiles ==
  { <<"/", "e", "t", "c", "/", "p", "a", "s", "s", "w", "d">>,
    <<"/", "a", "p", "p", "/", "s", "e", "r", "v", "e", "r", ".", "j", "s">>,
    <<"/", "a", "p", "p", "/", "u", "p", "l", "o", "a", "d", "s", "_", "o", "l", "d",
      "/", "a", ".", "t", "x", "t">> }

Directories ==
  { <<"/">>, <<"/", "e", "t", "c">>, <<"/", "a", "p", "p">>, uploadDir,
    <<"/", "a", "p", "p", "/", "u", "p", "l", "o", "a", "d", "s", "_", "o", "l", "d">> }

\* Names asked of GET /uploads/:filename besides the names of stored files.
GetNames ==
  { <<".", ".", "/", ".", ".", "/", "e", "t", "c", "/", "p", "a", "s", "s", "w", "d">>,
    <<".", ".", "/", "s", "e", "r", "v", "e", "r", ".", "j", "s">>,
    <<".", ".", "/", "u", "p", "l", "o", "a", "d", "s", "_", "o", "l", "d",
      "/", "a", ".", "t", "x", "t">>,
    NameTxt }

(***************************************************************************)
(* The file system                                                         *)
(***************************************************************************)
FileNames(d) == {f.filename : f \in d}

FilePath(filename) == uploadDir \o <<"/">> \o filename

\* fs.existsSync(p) with the upload directory holding d.
existsSync(d, p) ==
  \/ p \in OutsideFiles
  \/ \E n \in FileNames(d) : p = FilePath(n)
  \/ StripTrailingSlashes(p) \in Directories
  \/ p = <<"/">>

\* Mutant: the file is cut one byte short.
WriteFileShort(d, filename, size) ==
  {f \in d : f.filename # filename}
    \cup {[filename |-> filename, size |-> IF size > 0 THEN size - 1 ELSE 0]}

\* The directory after a write stream has been opened on (or has finished
\* writing) filename: an older file of that name is replaced.
WriteFile(d, filename, size) ==
  {f \in d : f.filename # filename} \cup {[filename |-> filename, size |-> size]}

\* Mutant: the file is left where it is.
UnlinkNothing(d, filename) == d

\* fs.unlink / fs.unlinkSync
Unlink(d, filename) == {f \in d : f.filename # filename}

\* The values the random source can still return: it is taken to be
\* collision free, no call returns a value found in a stored name.
FreshHashes(d) == {h \in Hashes : \A n \in FileNames(d) : ~ includes(n, h)}

(***************************************************************************)
(* State                                                                   *)
(***************************************************************************)
Idle ==
  [pc |-> "idle", client |-> "", file |-> NoFile, deadline |-> 0, timer |-> FALSE,
   headersSent |-> FALSE, filename |-> <<>>, before |-> {}]

\* A response: the route and client it answers, its status, the kind of its
\* error, the file of the request, the filename and size it reports (for a
\* retrieval: the name asked), the number of times the pipeline called a
\* sending method for the request, and for a retrieval the path sent and
\* whether the directory held a file of the name asked.
NoResp ==
  [route |-> "", client |-> "", status |-> 0, error |-> "", file |-> NoFile,
   filename |-> <<>>, size |-> 0, attempts |-> 0, served |-> <<>>, existed |-> FALSE]

NoSan == [done |-> FALSE, name |-> <<>>, hash |-> <<>>, out |-> <<>>]

Init ==
  /\ now = 0
  /\ uploadAttempts = [c \in Clients |-> <<>>]
  /\ admitted = [c \in Clients |-> <<>>]
  /\ disk = {}
  /\ req = Idle
  /\ resp = NoResp
  /\ nposts = 0
  /\ san = NoSan


(***************************************************************************)
(* Responses                                                               *)
(***************************************************************************)
Response(client, status, error, file, filename, size, attempts) ==
  [route |-> "upload", client |-> client, status |-> status, error |-> error,
   file |-> file, filename |-> filename, size |-> size, attempts |-> attempts,
   served |-> <<>>, existed |-> FALSE]

\* res.status(status).json(...) of the request r.  Once the headers are sent
\* (only the timeout guard can have sent them) the call throws and the client
\* keeps the response it has: the call is counted as one more attempt.
Send(r, status, error, filename, size) ==
  IF r.headersSent
    THEN Response(r.client, 500, "Timeout", r.file, <<>>, 0, 2)
    ELSE Response(r.client, status, error, r.file, filename, size, 1)

\* Mutant: the MIME type is tested before the extension.
fileFilterMimeFirst(file) ==
  IF ~ isAllowedMimeType(file.mimetype) THEN "UnsupportedMimeType"
  ELSE IF ~ isAllowedExtension(file.originalname) THEN "UnsupportedExtension"
  ELSE ""

\* fileFilter of the multer configuration: the error it passes to cb, "" for
\* cb(null, true).
fileFilter(file) ==
  IF ~ isAllowedExtension(file.originalname) THEN "UnsupportedExtension"
  ELSE IF ~ isAllowedMimeType(file.mimetype) THEN "UnsupportedMimeType"
  ELSE ""

\* limits.fileSize: the stream is cut, and LIMIT_FILE_SIZE raised, when the
\* file holds more bytes than the limit.
ExceedsLimit(size) == size > MAX_FILE_SIZE

(***************************************************************************)
(* Actions                                                                 *)
(***************************************************************************)
\* The clock advances.  The history forgets the admissions that left the window.
Tick ==
  /\ now' = now + TickMs
  /\ admitted' = [c \in Clients |->
                    SelectSeq(admitted[c], LAMBDA t : now' - t < RATE_LIMIT_WINDOW)]
  /\ UNCHANGED <<uploadAttempts, disk, req, resp, nposts, san>>

\* POST /upload from client c carrying file f: the rate limiting middleware,
\* then the first handler of the route, which arms the timeout guard and
\* hands the request to multer.
Post(c, f) ==
  /\ req.pc = "idle"
  /\ nposts' = nposts + 1
  /\ uploadAttempts' = RateLimitStore(uploadAttempts, c, now)
  /\ IF ~ RateLimitOk(uploadAttempts, c, now)
       THEN /\ resp' = Response(c, 429, "RateLimited", f, <<>>, 0, 1)
            /\ UNCHANGED <<req, admitted>>
       ELSE /\ admitted' = [admitted EXCEPT ![c] = Append(@, now)]
            /\ req' = [pc |-> "parsing", client |-> c, file |-> f,
                       deadline |-> now + UPLOAD_TIMEOUT, timer |-> TRUE,
                       headersSent |-> FALSE, filename |-> <<>>, before |-> disk]
            /\ resp' = NoResp
  /\ UNCHANGED <<now, disk, san>>

\* Any other method on /upload: the middleware calls next() at once and no
\* route matches, the 404 handler answers.
NonPost(c) ==
  /\ resp' = Response(c, 404, "RouteNotFound", NoFile, <<>>, 0, 1)
  /\ UNCHANGED <<now, uploadAttempts, admitted, disk, req, nposts, san>>

\* multer has parsed the form.  Without a file part it calls back without
\* error and the second handler answers 400.  With one, fileFilter decides:
\* on an error the callback answers 400, else the storage names the file and
\* opens it in the upload directory.
MulterFile ==
  /\ req.pc = "parsing"
  /\ IF ~ req.file.present
       THEN /\ resp' = Send(req, 400, "MissingFile", <<>>, 0)
            /\ req' = Idle
            /\ UNCHANGED disk
       ELSE IF fileFilter(req.file) # ""
         THEN /\ resp' = Send(req, 400, fileFilter(req.file), <<>>, 0)
              /\ req' = Idle
              /\ UNCHANGED disk
         ELSE \E hash \in FreshHashes(disk) :
                LET sanitized == sanitizeFileName(req.file.originalname, hash)
                IN  /\ disk' = WriteFile(disk, sanitized, 0)
                    /\ req' = [req EXCEPT !.pc = "writing", !.filename = sanitized]
                    /\ UNCHANGED resp
  /\ UNCHANGED <<now, uploadAttempts, admitted, nposts, san>>

\* The file stream has ended.  Past the size limit multer removes the file
\* and calls back with LIMIT_FILE_SIZE (400).  Else the file is complete and
\* the second handler runs: the additional size check, then the success
\* response.
MulterDone ==
  /\ req.pc = "writing"
  /\ IF ExceedsLimit(req.file.size)
       THEN /\ disk' = Unlink(disk, req.filename)
            /\ resp' = Send(req, 400, "FileTooLarge", <<>>, 0)
       ELSE IF ~ checkFileSize(req.file.size) /\ ~ req.headersSent
         THEN /\ disk' = Unlink(disk, req.filename)
              /\ resp' = Send(req, 400, "FileTooLarge", <<>>, 0)
         ELSE /\ disk' = WriteFile(disk, req.filename, req.file.size)
              /\ resp' = Send(req, 200, "", req.filename, req.file.size)
  /\ req' = Idle
  /\ UNCHANGED <<now, uploadAttempts, admitted, nposts, san>>

\* The timeout guard fires: it answers 500 unless the headers are sent.
Timeout ==
  /\ req.pc # "idle"
  /\ req.timer
  /\ now >= req.deadline
  /\ IF ~ req.headersSent
       THEN /\ resp' = Response(req.client, 500, "Timeout", req.file, <<>>, 0, 1)
            /\ req' = [req EXCEPT !.timer = FALSE, !.headersSent = TRUE]
       ELSE /\ req' = [req EXCEPT !.timer = FALSE]
            /\ UNCHANGED resp
  /\ UNCHANGED <<now, uploadAttempts, admitted, disk, nposts, san>>

\* GET /uploads/:filename
Get(name) ==
  \E hash \in FreshHashes(disk) :
    LET filename     == sanitizeFileName(name, hash)
        filePath     == join(uploadDir, filename)
        resolvedPath == resolve(filePath)
        resolvedDir  == resolve(uploadDir)
        status       == IF ~ existsSync(disk, filePath) THEN 404
                        ELSE IF ~ startsWith(resolvedPath, resolvedDir) THEN 403
                        ELSE 200
    IN  /\ resp' = [route |-> "get", client |-> "", status |-> status,
                    error |-> IF status = 404 THEN "NotFound"
                              ELSE IF status = 403 THEN "PathTraversalAttempt" ELSE "",
                    file |-> NoFile, filename |-> name, size |-> 0, attempts |-> 1,
                    served |-> IF status = 200 THEN resolvedPath ELSE <<>>,
                    existed |-> name \in FileNames(disk)]
        /\ UNCHANGED <<now, uploadAttempts, admitted, disk, req, nposts, san>>

\* One call of sanitizeFileName on a generated name.
Sanitize(name, hash) ==
  /\ ~ san.done
  /\ san' = [done |-> TRUE, name |-> name, hash |-> hash,
             out |-> sanitizeFileName(name, hash)]
  /\ UNCHANGED <<now, uploadAttempts, admitted, disk, req, resp, nposts>>


(***************************************************************************)
(* Specifications                                                          *)
(***************************************************************************)
ClockBound == now + TickMs <= MaxTicks * TickMs

UploadClient == CHOOSE c \in Clients : TRUE

\* A request whose file will be complete needs room in the directory.
RoomFor(f) ==
  (f.present /\ fileFilter(f) = "" /\ ~ ExceedsLimit(f.size))
    => Cardinality(disk) < MaxFiles

\* The rate limiter under load: two clients posting forms without a file,
\* other methods on /upload, the clock.
NextRate ==
  \/ ClockBound /\ Tick
  \/ \E c \in Clients : nposts < MaxPosts /\ Post(c, NoFile)
  \/ \E c \in Clients : NonPost(c)
  \/ MulterFile
  \/ Timeout

SpecRate == Init /\ [][NextRate]_vars

\* One client against the limiter and the gate together.
NextLimit ==
  \/ ClockBound /\ Tick
  \/ \E f \in LimitFiles : nposts < MaxPosts /\ RoomFor(f) /\ Post(UploadClient, f)
  \/ NonPost(UploadClient)
  \/ MulterFile
  \/ MulterDone
  \/ Timeout

SpecLimit == Init /\ [][NextLimit]_vars

\* The upload pipeline and the retrieval endpoint: one client, every upload
\* of Files, requests for stored and foreign names, and a clock that runs
\* until the delay of the timeout guard has passed once.
NextUpload ==
  \/ now < UPLOAD_TIMEOUT /\ Tick
  \/ \E f \in Files \cup {NoFile} :
       nposts < MaxUploads /\ RoomFor(f) /\ Post(UploadClient, f)
  \/ MulterFile
  \/ MulterDone
  \/ Timeout
  \/ \E name \in GetNames \cup FileNames(disk) : Get(name)

SpecUpload == Init /\ [][NextUpload]_vars

\* The input names of the sanitizer: every string of at most MaxNameLen
\* characters over SanAlphabet, and names shaped like stored names.
SanAlphabet == {"a", ".", "/", "\\", " "}

SanNames ==
  UNION {[1..n -> SanAlphabet] : n \in 0..MaxNameLen}
    \cup {sanitizeFileName(n, h) : n \in {NameTxt, NamePng, <<>>}, h \in Hashes}

NextSan == ~ san.done /\ \E name \in SanNames, hash \in Hashes : Sanitize(name, hash)

SpecSan == Init /\ [][NextSan]_vars

(***************************************************************************)
(* Properties                                                              *)
(***************************************************************************)
\* The admissions of client c that are inside the window at time t.
InWindow(c, t) ==
  Cardinality({i \in 1..Len(admitted[c]) : t - admitted[c][i] < RATE_LIMIT_WINDOW})

\* A step that receives a POST /upload, the client it comes from and
\* whether the limiter rejects it.
PostStep == nposts' = nposts + 1

PostClient == IF req'.pc = "parsing" THEN req'.client ELSE resp'.client

PostRejected == req'.pc = "idle" /\ resp'.status = 429

PostAdmitted == req.pc = "idle" /\ req'.pc = "parsing"

\* C1: a POST /upload of a client is answered 429 exactly when 10 requests
\* of that client were admitted less than 60000 ms before it; the requests of
\* the other clients do not count.
C1_RateLimit ==
  [][PostStep =>
       (PostRejected <=> InWindow(PostClient, now) >= MAX_UPLOADS_PER_MINUTE)]_vars

\* C1 witness: a client is refused with 10 admissions in the window, after
\* the clock has moved, while the other client has an admission in the window.
C1_Witness ==
  \E c \in Clients, d \in Clients :
    /\ c # d
    /\ resp.status = 429 /\ resp.client = c
    /\ InWindow(c, now) = MAX_UPLOADS_PER_MINUTE
    /\ InWindow(d, now) >= 1
    /\ now > 0

GateErrors == {"UnsupportedExtension", "UnsupportedMimeType", "FileTooLarge"}

\* C2: when an upload is answered with a rejection for its extension, its
\* MIME type or its size, the upload directory holds the files it held when
\* the request arrived, and none named as the storage named this upload.
C2_NoOrphan ==
  [][(req.pc # "idle" /\ req'.pc = "idle" /\ resp'.route = "upload"
        /\ resp'.error \in GateErrors)
       => (disk' = req.before /\ req.filename \notin FileNames(disk'))]_vars

\* C2 witness: an upload was refused as too large, past the streaming limit,
\* while the directory holds a file.
C2_Witness ==
  /\ req.pc = "idle"
  /\ resp.route = "upload" /\ resp.error = "FileTooLarge" /\ resp.attempts = 1
  /\ resp.file.size > MAX_FILE_SIZE
  /\ disk # {}

\* C3: a success response names a file of the upload directory whose length
\* is the size of the response, at most MAX_FILE_SIZE.
C3_StoredSize ==
  (resp.route = "upload" /\ resp.status = 200) =>
     /\ \E f \in disk : f.filename = resp.filename /\ f.size = resp.size
     /\ resp.size <= 5 * 1024 * 1024

\* C3 witness: an upload of exactly MAX_FILE_SIZE bytes was accepted.
C3_Witness ==
  /\ resp.route = "upload" /\ resp.status = 200
  /\ resp.size = 5 * 1024 * 1024
  /\ resp.file.size = resp.size

Separators == {"/", "\\"}

\* C4: the output of sanitizeFileName holds no "..", no path separator, does
\* not start with "." and differs from the input name.
C4_Sanitized ==
  san.done =>
    /\ ~ includes(san.out, <<".", ".">>)
    /\ \A i \in 1..Len(san.out) : san.out[i] \notin Separators
    /\ san.out # <<>> /\ san.out[1] # "."
    /\ san.out # san.name

\* C4 witness: a name with a leading dot, a traversal sequence and a
\* separator has been sanitized.
C4_Witness ==
  /\ san.done
  /\ Len(san.name) >= 4
  /\ san.name[1] = "."
  /\ includes(san.name, <<".", ".", "/">>)

\* The name designates, from the upload directory, something else than a
\* direct entry of it.
DesignatesOutside(name) ==
  LET p == resolve(uploadDir \o <<"/">> \o name)
  IN  ~ (startsWith(p, uploadDir \o <<"/">>)
         /\ \A i \in (Len(uploadDir) + 2)..Len(p) : p[i] # "/")

\* C5: a retrieval never sends a file from outside the upload directory: a
\* name that designates a path outside is answered 403 or 404, and what a 200
\* sends is a direct entry of the upload directory.
C5_NoTraversal ==
  resp.route = "get" =>
    /\ resp.served \notin OutsideFiles
    /\ DesignatesOutside(resp.filename) => resp.status \in {403, 404}
    /\ resp.status = 200 =>
         /\ startsWith(resp.served, uploadDir \o <<"/">>)
         /\ \A i \in (Len(uploadDir) + 2)..Len(resp.served) : resp.served[i] # "/"

\* C5 witness: a retrieval of a name that resolves to a file of the host
\* outside the upload directory has been answered.
C5_Witness ==
  /\ resp.route = "get"
  /\ resolve(uploadDir \o <<"/">> \o resp.filename) \in OutsideFiles
  /\ resp.status = 404

\* C6: a retrieval of the name of a file the directory holds is answered 200
\* with that file, and 404 is answered only when the directory holds no file
\* of the name asked.
C6_RoundTrip ==
  resp.route = "get" =>
    /\ resp.existed => (resp.status = 200 /\ resp.served = FilePath(resp.filename))
    /\ resp.status = 404 => ~ resp.existed

\* C7: a refused call of checkRateLimit leaves the Map as it was; an
\* admitted one changes the entry of its client only, to the timestamps of that
\* entry still inside the window followed by now.
C7_Frame ==
  [][PostStep =>
       IF PostRejected
         THEN uploadAttempts' = uploadAttempts
         ELSE /\ \A d \in Clients \ {PostClient} :
                   uploadAttempts'[d] = uploadAttempts[d]
              /\ uploadAttempts'[PostClient] =
                   SelectSeq(uploadAttempts[PostClient],
                             LAMBDA t : now - t < 60000) \o <<now>>]_vars

\* C7 witness: a client was admitted with an older timestamp kept, while the
\* entry of the other client holds a timestamp that left the window.
C7_Witness ==
  \E d \in Clients :
    /\ req.pc = "parsing" /\ req.client # d
    /\ Len(uploadAttempts[req.client]) >= 2
    /\ uploadAttempts[req.client][1] < now
    /\ uploadAttempts[req.client][Len(uploadAttempts[req.client])] = now
    /\ \E i \in 1..Len(uploadAttempts[d]) : now - uploadAttempts[d][i] >= 60000

\* The rejection the gate owes a file: the first check that fails, in the
\* order extension, MIME type, size.
FirstFailure(f) ==
  IF toLowerCase(extname(f.originalname)) \notin ALLOWED_EXTENSIONS
    THEN "UnsupportedExtension"
  ELSE IF f.mimetype \notin ALLOWED_MIME_TYPES THEN "UnsupportedMimeType"
  ELSE IF f.size > 5 * 1024 * 1024 THEN "FileTooLarge"
  ELSE ""

C9_OneResponse == resp.route = "upload" => resp.attempts <= 1

\* C10: the limiter counts attempts: the Map changes only when a POST is
\* admitted, by one timestamp, whatever becomes of the upload; the POST of a
\* client with 10 admissions in the window is answered 429, starts no upload
\* and leaves the directory as it is.
C10_AttemptsCounted ==
  [][/\ uploadAttempts' # uploadAttempts => (PostStep /\ PostAdmitted)
     /\ PostAdmitted =>
          Len(uploadAttempts'[PostClient]) = InWindow(PostClient, now) + 1
     /\ (PostStep /\ InWindow(PostClient, now) >= MAX_UPLOADS_PER_MINUTE) =>
          (resp'.status = 429 /\ req' = req /\ disk' = disk)]_vars

\* C10 witness: an acceptable upload is answered 429 after 10 attempts that
\* stored nothing.
C10_Witness ==
  /\ resp.status = 429
  /\ resp.file.present /\ FirstFailure(resp.file) = ""
  /\ InWindow(resp.client, now) = MAX_UPLOADS_PER_MINUTE
  /\ disk = {}
  /\ req.pc = "idle"

=============================================================================
